---------------------------- MODULE Spec2Model ----------------------------
(***************************************************************************)
(* A model of grc.py, the GGSIPU results crawler: the listing walker       *)
(* (get_result_pdfs), the cursor store (load_last / dump_last), the diff   *)
(* (new_result_pdfs), the payload fetch (download_file), the Firebase      *)
(* dump target (FirebaseDump) and the driver (main).                       *)
(***************************************************************************)
EXTENDS Integers, Sequences, FiniteSets, TLC

VARIABLES
    site,                       \* the remote listing: page url -> [pdfs, next]
    RESULT_SCRAP_DEPTH,         \* option scrap-depth
    LAST_JSON,                  \* option last-json: a path or an inline literal
    last_file,                  \* text of the file dump_last writes
    OPTION_FORCE_ALL,
    OPTION_SKIP_UPLOAD_IMAGES,
    OPTION_SKIP_UPLOAD_DATA,
    pc,                         \* position of the process inside main
    last,                       \* new_result_pdfs: what load_last returned
    all_pdfs,                   \* new_result_pdfs: what get_result_pdfs returned
    pdf_infos,                  \* main: what new_result_pdfs returned
    i,                          \* main: enumerate index over reversed(pdf_infos)
    self_pdf_info,              \* BaseDump.pdf_info (set_data)
    results,                    \* BaseDump.results (set_data)
    subs,                       \* BaseDump.subs (set_data)
    institutions,               \* store: server/data/institutions
    students,                   \* store: server/data/students/<c>/<b>/<r>/<field>
    student_results,            \* store: server/data/students/<c>/<b>/<r>/results/<key>
    subjects,                   \* store: server/data/subjects
    bucket,                     \* storage bucket: blob name -> content
    img_upload_error,           \* FirebaseDump.img_upload_error
    run,                        \* history: number of the current process run
    synced,                     \* history: <<run, entry>> whose results were written
    forced,                     \* history: some run so far had force-all set
    uploads,                    \* history: upload attempts of the current run
    dumped,                     \* history: arguments of dump_last in the current run
    skipped,                    \* history: entries whose fetch gave nothing in this run
    seen,                       \* history: records handed to set_data so far
    prev,                       \* history: what the previous set_data was given
    fetched,                    \* history: entries main called download_file for
    fetch_call,                 \* download_file on its own: the call and its response
    fetch_ret                   \* download_file on its own: what the call returned

optionVars == << RESULT_SCRAP_DEPTH, LAST_JSON, OPTION_FORCE_ALL,
                 OPTION_SKIP_UPLOAD_IMAGES, OPTION_SKIP_UPLOAD_DATA >>
diffVars == << last, all_pdfs, pdf_infos >>
dumpVars == << self_pdf_info, results, subs >>
storeVars == << institutions, students, student_results, subjects, bucket >>
histVars == << run, synced, forced, uploads, dumped, skipped, seen, prev, fetched >>
fetchVars == << fetch_call, fetch_ret >>

vars == << site, last_file, pc, i, img_upload_error, optionVars, diffVars, dumpVars,
           storeVars, histVars, fetchVars >>

-----------------------------------------------------------------------------
(* Bounds of the model.                                                    *)

\* longest walked listing the diff is tried on
MaxLen == 3
\* number of process runs of the script
MaxRuns == 2
\* number of start() calls in the specification of the dump target alone
MaxSyncs == 3
\* largest scrap-depth the walker is tried with on its own
MaxDepth == 3

-----------------------------------------------------------------------------
(* Values.                                                                 *)

\* Python None as a field value
NULL == "None"

Truthy(v) == v # NULL /\ v # ""

Entry(d, t, u) == [date |-> d, title |-> t, url |-> u]

E1 == Entry("03-01", "Result C", "u1")
E2 == Entry("02-01", "Result B", "u2")
E3 == Entry("01-01", "Result A", "u3")
\* same date and url as E1, another title: a partial match of E1
E1b == Entry("03-01", "Result C (revised)", "u1")

\* Python None / a value as a sequence of length 0 / 1
None == << >>
Some(v) == << v >>

RECURSIVE Reversed(_)
Reversed(s) == IF s = << >> THEN << >> ELSE Append(Reversed(Tail(s)), Head(s))

SeqsUpTo(S, n) == UNION { [1..k -> S] : k \in 0..n }

IsPrefix(p, s) == Len(p) <= Len(s) /\ p = SubSeq(s, 1, Len(p))

Range(s) == { s[k] : k \in DOMAIN s }

-----------------------------------------------------------------------------
(* JSON text of the cursor (json.dump / json.load on a dict of three       *)
(* strings).  A text is a sequence of tokens.                              *)

JsonDump(e) == << "{", "date", e.date, "title", e.title, "url", e.url, "}" >>

\* the file does not exist
NoFile == << "ENOENT" >>
\* a file opened for writing and never written
EmptyText == << >>
\* the text of the empty object
EmptyObject == << "{", "}" >>
\* a JSON text cut off after its first value
Truncated == << "{", "date", "01-01" >>
\* an inline literal that is not JSON
InlineBad == << "{", "date" >>
\* file content that is not text in the encoding open() reads it with
Undecodable == << "\\xff" >>

JsonWellFormed(t) ==
    \/ t = EmptyObject
    \/ /\ Len(t) = 8
       /\ t[1] = "{" /\ t[2] = "date" /\ t[4] = "title" /\ t[6] = "url" /\ t[8] = "}"

\* json.loads: the value, for a well-formed text
JsonLoads(t) ==
    IF t = EmptyObject THEN None
    ELSE Some(Entry(t[3], t[5], t[7]))

StartsWithBrace(t) == Len(t) > 0 /\ t[1] = "{"

\* the default of the last-json option
DefaultPath == << "last/last.json" >>

load_last ==
    IF StartsWithBrace(LAST_JSON)
    THEN IF JsonWellFormed(LAST_JSON) THEN JsonLoads(LAST_JSON) ELSE None
    ELSE IF last_file # NoFile
         THEN IF JsonWellFormed(last_file) THEN JsonLoads(last_file) ELSE None
         ELSE None

\* json.load(fp) raises an error other than JSONDecodeError, the only one
\* load_last catches: the file does not decode (UnicodeDecodeError)
load_last_raises == ~StartsWithBrace(LAST_JSON) /\ last_file = Undecodable

-----------------------------------------------------------------------------
(* Listing walker.                                                         *)

RESULTS_URL == "p0"
NoLink == "nolink"

\* a walker that follows the older-page link once more than its depth allows
RECURSIVE get_result_pdfs_one_more(_, _, _)
get_result_pdfs_one_more(s, url, recursive) ==
    LET pdfs == s[url].pdfs
    IN  IF recursive >= 0 /\ s[url].next # NoLink
        THEN pdfs \o get_result_pdfs_one_more(s, s[url].next, recursive - 1)
        ELSE pdfs

\* the urls get_result_pdfs passes to get (line 184), in the order of the calls
RECURSIVE get_calls(_, _, _)
get_calls(s, url, recursive) ==
    IF recursive > 0 /\ s[url].next # NoLink
    THEN << url >> \o get_calls(s, s[url].next, recursive - 1)
    ELSE << url >>

RECURSIVE get_result_pdfs(_, _, _)
get_result_pdfs(s, url, recursive) ==
    LET pdfs == s[url].pdfs
    IN  IF recursive > 0 /\ s[url].next # NoLink
        THEN pdfs \o get_result_pdfs(s, s[url].next, recursive - 1)
        ELSE pdfs

-----------------------------------------------------------------------------
(* Diff engine.                                                            *)

\* a diff that takes entries for equal when their urls are
RECURSIVE UntilLastByUrl(_, _)
UntilLastByUrl(pdfs, lst) ==
    IF pdfs = << >> THEN << >>
    ELSE IF Head(pdfs).url # lst.url
         THEN << Head(pdfs) >> \o UntilLastByUrl(Tail(pdfs), lst)
         ELSE << >>

\* a diff that takes the entry equal to the cursor as new, too
RECURSIVE UntilLastInclusive(_, _)
UntilLastInclusive(pdfs, lst) ==
    IF pdfs = << >> THEN << >>
    ELSE IF Head(pdfs) # lst
         THEN << Head(pdfs) >> \o UntilLastInclusive(Tail(pdfs), lst)
         ELSE << Head(pdfs) >>

\* the loop of new_result_pdfs: the entries before the first one equal to last
RECURSIVE UntilLast(_, _)
UntilLast(pdfs, lst) ==
    IF pdfs = << >> THEN << >>
    ELSE IF Head(pdfs) # lst
         THEN << Head(pdfs) >> \o UntilLast(Tail(pdfs), lst)
         ELSE << >>

\* a diff that overlooks force-all
new_result_pdfs_unforced(lst, all, force) ==
    IF lst = None
    THEN all
    ELSE UntilLast(all, lst[1])

new_result_pdfs(lst, all, force) ==
    IF lst = None \/ force
    THEN all
    ELSE UntilLast(all, lst[1])

-----------------------------------------------------------------------------
(* Parsed records (ggsipu_result.Result) and the payloads of the entries.  *)

Rec(c, n, b, r, s, img) ==
    [institution_code |-> c, institution_name |-> n, batch |-> b,
     roll_num |-> r, student_name |-> s, programme_code |-> "027",
     programme_name |-> "B.Tech", image |-> img,
     examination_name |-> "END TERM", semester |-> "01", marks |-> "marks"]

\* fully valid, with a photo
RA == Rec("101", "Inst One", "2019", "r1", "Asha", "imgA")
\* valid, institution name missing
RB == Rec("202", NULL, "2019", "r2", "Bala", "imgB")
\* roll number missing
RC == Rec("101", "Inst One", "2019", NULL, "Chitra", "imgC")
\* institution code missing, roll number of RA
RD == Rec(NULL, "Inst Four", "2019", "r1", "Dev", "imgD")
\* batch missing
RE == Rec("101", "Inst One", NULL, "r5", "Esha", "imgE")
\* the student of RA again, other names
RF == Rec("101", "Inst One (new)", "2019", "r1", "Asha F", "imgF")
\* valid, no photo
RG == Rec("101", "Inst One", "2019", "r7", "Gita", NULL)

EmptyMap == [x \in {} |-> NULL]

Put(f, k, v) == (k :> v) @@ f

\* parse_result_pdf on the payload behind a url: (subs, results)
Payload(url) ==
    CASE url = "u3" -> [subs |-> ("S1" :> "Maths"), results |-> << RA, RB >>]
      [] url = "u2" -> [subs |-> ("S2" :> "Physics"), results |-> << RC, RF >>]
      [] OTHER      -> [subs |-> EmptyMap, results |-> << RD >>]

\* what set_data is given when the dump target is exercised on its own
SyncInputs ==
    { [pdf_info |-> e, subs |-> Payload(e.url).subs, results |-> Payload(e.url).results]
        : e \in { E1, E2, E3 } }
    \cup
    { [pdf_info |-> E1, subs |-> ("S1" :> "Maths II"), results |-> << RD, RA >>],
      [pdf_info |-> E2, subs |-> EmptyMap, results |-> << RE, RG >>],
      [pdf_info |-> E3, subs |-> ("S1" :> "Maths"), results |-> << RA, RF >>] }

-----------------------------------------------------------------------------
(* FirebaseDump.                                                           *)

\* a validity check that forgets the roll number
_check_result_no_roll(r) ==
    /\ r.institution_code # NULL
    /\ r.batch # NULL

_check_result(r) ==
    /\ r.institution_code # NULL
    /\ r.batch # NULL
    /\ r.roll_num # NULL

_generate_result_dict(r, pdf_info) ==
    [examination_name |-> r.examination_name, marks |-> r.marks,
     semester |-> r.semester, pdf_info |-> pdf_info]

\* Reference.update: merge the children of d into ref; a None value deletes
Update(ref, d) ==
    LET m == d @@ ref
    IN  [p \in { q \in DOMAIN m : ~(q \in DOMAIN d /\ d[q] = NULL) } |-> m[p]]

\* Reference.update with dict values (never None)
UpdateNodes(ref, d) == d @@ ref

\* the loop of _process_institutions
RECURSIVE inst_dict(_)
inst_dict(rs) ==
    IF rs = << >> THEN EmptyMap
    ELSE LET r == rs[Len(rs)]
             d == inst_dict(SubSeq(rs, 1, Len(rs) - 1))
         IN  IF _check_result(r) /\ Truthy(r.institution_name)
             THEN Put(d, r.institution_code, r.institution_name)
             ELSE d

base_key(r) == << r.institution_code, r.batch, r.roll_num >>

\* a loop in which the first record of a student wins over the later ones
RECURSIVE update_dict_first_wins(_)
update_dict_first_wins(rs) ==
    IF rs = << >> THEN EmptyMap
    ELSE LET r == rs[1]
             d == update_dict_first_wins(Tail(rs))
         IN  IF _check_result(r)
             THEN Put(Put(Put(Put(d,
                      Append(base_key(r), "name"), r.student_name),
                      Append(base_key(r), "programme_code"), r.programme_code),
                      Append(base_key(r), "programme_name"), r.programme_name),
                      Append(base_key(r), "batch"), r.batch)
             ELSE d

\* the loop of _process_students
RECURSIVE update_dict(_)
update_dict(rs) ==
    IF rs = << >> THEN EmptyMap
    ELSE LET r == rs[Len(rs)]
             d == update_dict(SubSeq(rs, 1, Len(rs) - 1))
         IN  IF _check_result(r)
             THEN Put(Put(Put(Put(d,
                      Append(base_key(r), "name"), r.student_name),
                      Append(base_key(r), "programme_code"), r.programme_code),
                      Append(base_key(r), "programme_name"), r.programme_name),
                      Append(base_key(r), "batch"), r.batch)
             ELSE d

\* what generate_key can return
Keys == { "k1", "k2" }

\* the loop of _process_results; keys[k] is what generate_key returned for rs[k]
RECURSIVE res_dict(_, _, _)
res_dict(rs, pdf_info, keys) ==
    IF rs = << >> THEN EmptyMap
    ELSE LET n == Len(rs)
             r == rs[n]
             d == res_dict(SubSeq(rs, 1, n - 1), pdf_info, keys)
         IN  IF _check_result(r)
             THEN Put(d, base_key(r) \o << "results", keys[n] >>,
                      _generate_result_dict(r, pdf_info))
             ELSE d

blob_name(r) == << "photos/students", r.roll_num >>

\* the loop of dump_images from record k on; the upload of record failAt raises
RECURSIVE images_from(_, _, _, _, _)
images_from(rs, pdf_info, k, failAt, st) ==
    IF k > Len(rs) THEN st
    ELSE LET r == rs[k]
         IN  IF _check_result(r) /\ Truthy(r.image)
             THEN IF k = failAt
                  THEN [st EXCEPT !.err = TRUE,
                                  !.uploads = Append(@, [pdf_info |-> pdf_info, rec |-> r, ok |-> FALSE])]
                  ELSE images_from(rs, pdf_info, k + 1, failAt,
                         [st EXCEPT !.bucket = Put(@, blob_name(r), r.image),
                                    !.uploads = Append(@, [pdf_info |-> pdf_info, rec |-> r, ok |-> TRUE])])
             ELSE images_from(rs, pdf_info, k + 1, failAt, st)

\* a dump_images that does not look at img_upload_error
dump_images_unguarded(rs, pdf_info, failAt, st) ==
    images_from(rs, pdf_info, 1, failAt, st)

dump_images(rs, pdf_info, failAt, st) ==
    IF ~st.err THEN images_from(rs, pdf_info, 1, failAt, st) ELSE st

-----------------------------------------------------------------------------
(* download_file.                                                          *)

\* what requests.get can answer for a payload url
Responses ==
    [status_code : { 200, 404 }, content : { "", "%PDF" },
     content_type : { "application/pdf", "text/html" }]

Raised == << "raised" >>

\* resp.text: the body decoded to a str
Text(content) == << "str", content >>

\* download_file(url, html_allow, raise_ex) on a response, or on a get that raised
download_file(got, resp, html_allow, raise_ex) ==
    IF ~got
       \/ resp.status_code # 200
       \/ resp.content = NULL
       \/ (resp.content_type = "text/html" /\ html_allow = FALSE)
    THEN IF raise_ex THEN Raised ELSE None
    ELSE Some(IF html_allow THEN Text(resp.content) ELSE resp.content)

\* truth value of what download_file returned, as main tests it
Fetched(ret) == ret # None /\ ret # Raised /\ ret[1] # ""

\* no call of download_file on its own is under way
NoCall == [got |-> FALSE, resp |-> NULL, html_allow |-> FALSE, raise_ex |-> FALSE]

NoFetchCall == fetch_call = NoCall /\ fetch_ret = None

-----------------------------------------------------------------------------
(* The listing site.                                                       *)

Published == << E1, E2, E3 >>

\* the main page links to one older page; the older page may link back
SiteOf(newer, older, back) ==
    [p \in { "p0", "p1" } |->
        IF p = "p0" THEN [pdfs |-> newer, next |-> "p1"]
                    ELSE [pdfs |-> older, next |-> back]]

\* the oldest result on the older page, the next one on the main page
Sites == { SiteOf(<< E2 >>, << E3 >>, back) : back \in { NoLink, "p0" } }

\* program default of scrap-depth
DefaultDepth == 2

Depths == { 0, 1, DefaultDepth }

LastJsonOptions == { DefaultPath, JsonDump(E3) }

-----------------------------------------------------------------------------
(* main and BaseDump.start, one action per step.                           *)

\* a loop over pdf_infos that is not reversed
pdf_info_newest_first == pdf_infos[i + 1]

\* the loop variable of main: for i, pdf_info in enumerate(reversed(pdf_infos))
pdf_info == pdf_infos[Len(pdf_infos) - i]

\* a main that saves the cursor before the dump targets are started
AfterSetData_cursor_first == "dump_last"

\* BaseDump.start: the first stage that is not skipped
AfterSetData ==
    IF ~OPTION_SKIP_UPLOAD_DATA THEN "institutions"
    ELSE IF ~OPTION_SKIP_UPLOAD_IMAGES THEN "images" ELSE "dump_last"

AfterData == IF ~OPTION_SKIP_UPLOAD_IMAGES THEN "images" ELSE "dump_last"

\* the for loop of main moves to the next entry
NextEntry == IF i + 1 >= Len(pdf_infos) THEN "end" ELSE "download"

\* nothing is in the store, no dump target holds data, no history
Fresh ==
    /\ last = None
    /\ all_pdfs = << >>
    /\ pdf_infos = << >>
    /\ i = 0
    /\ self_pdf_info = None
    /\ results = << >>
    /\ subs = EmptyMap
    /\ institutions = EmptyMap
    /\ students = EmptyMap
    /\ student_results = EmptyMap
    /\ subjects = EmptyMap
    /\ bucket = EmptyMap
    /\ img_upload_error = FALSE
    /\ synced = {}
    /\ uploads = << >>
    /\ dumped = << >>
    /\ skipped = {}
    /\ seen = {}
    /\ prev = None
    /\ fetched = << >>

Init ==
    /\ site \in Sites
    /\ RESULT_SCRAP_DEPTH \in Depths
    /\ LAST_JSON \in LastJsonOptions
    /\ last_file = NoFile
    /\ OPTION_FORCE_ALL = FALSE
    /\ OPTION_SKIP_UPLOAD_IMAGES \in BOOLEAN
    /\ OPTION_SKIP_UPLOAD_DATA \in BOOLEAN
    /\ pc = "idle"
    /\ run = 0
    /\ forced = FALSE
    /\ Fresh
    /\ NoFetchCall

\* the script starts: force-all is read, FirebaseDump().init()
ScriptStart ==
    /\ pc \in { "idle", "end", "aborted" }
    /\ run < MaxRuns
    /\ run' = run + 1
    /\ OPTION_FORCE_ALL' \in BOOLEAN
    /\ forced' = (forced \/ OPTION_FORCE_ALL')
    /\ img_upload_error' = FALSE
    /\ pc' = "new_result_pdfs"
    /\ last' = None
    /\ all_pdfs' = << >>
    /\ pdf_infos' = << >>
    /\ i' = 0
    /\ self_pdf_info' = None
    /\ results' = << >>
    /\ subs' = EmptyMap
    /\ uploads' = << >>
    /\ dumped' = << >>
    /\ skipped' = {}
    /\ prev' = None
    /\ fetched' = << >>
    /\ UNCHANGED << fetchVars, site, last_file, RESULT_SCRAP_DEPTH, LAST_JSON,
                    OPTION_SKIP_UPLOAD_IMAGES, OPTION_SKIP_UPLOAD_DATA, storeVars,
                    synced, seen >>

\* the site publishes one more result, newest first, between two runs
Publish ==
    /\ pc \in { "idle", "end", "aborted" }
    /\ \E k \in 2..Len(Published) :
          /\ site["p0"].pdfs[1] = Published[k]
          /\ site' = [site EXCEPT !["p0"].pdfs = << Published[k - 1] >> \o @]
    /\ UNCHANGED << fetchVars, last_file, pc, i, img_upload_error, optionVars, diffVars,
                    dumpVars, storeVars, histVars >>

\* pdf_infos = new_result_pdfs()
NewResultPdfs ==
    /\ pc = "new_result_pdfs"
    /\ ~load_last_raises
    /\ last' = load_last
    /\ all_pdfs' = get_result_pdfs(site, RESULTS_URL, RESULT_SCRAP_DEPTH)
    /\ pdf_infos' = new_result_pdfs(last', all_pdfs', OPTION_FORCE_ALL)
    /\ i' = 0
    /\ pc' = IF pdf_infos' = << >> THEN "end" ELSE "download"
    /\ UNCHANGED << fetchVars, site, last_file, img_upload_error, optionVars, dumpVars,
                    storeVars, histVars >>

\* if pdf := download_file(pdf_info["url"])
DownloadFile ==
    /\ pc = "download"
    /\ \E got \in BOOLEAN, resp \in Responses :
          IF Fetched(download_file(got, resp, FALSE, FALSE))
          THEN /\ pc' = "parse"
               /\ UNCHANGED << i, skipped >>
          ELSE /\ pc' = NextEntry
               /\ i' = i + 1
               /\ skipped' = skipped \cup { pdf_info }
    /\ fetched' = Append(fetched, pdf_info)
    /\ UNCHANGED << fetchVars, site, last_file, img_upload_error, optionVars, diffVars,
                    dumpVars, storeVars, run, synced, forced, uploads, dumped, seen,
                    prev >>

\* subs, results = parse_result_pdf(BytesIO(pdf)); dump.set_data(pdf_info, results, subs)
ParseResultPdf ==
    /\ pc = "parse"
    /\ self_pdf_info' = Some(pdf_info)
    /\ results' = Payload(pdf_info.url).results
    /\ subs' = Payload(pdf_info.url).subs
    /\ seen' = seen \cup Range(results')
    /\ prev' = IF self_pdf_info = None THEN None
               ELSE Some([pdf_info |-> self_pdf_info[1], results |-> results])
    /\ pc' = AfterSetData
    /\ UNCHANGED << fetchVars, site, last_file, i, img_upload_error, optionVars, diffVars,
                    storeVars, run, synced, forced, uploads, dumped, skipped,
                    fetched >>

\* FirebaseDump._process_institutions
ProcessInstitutions ==
    /\ pc = "institutions"
    /\ LET d == inst_dict(results)
       IN  institutions' = IF d # EmptyMap THEN Update(institutions, d) ELSE institutions
    /\ pc' = "students"
    /\ UNCHANGED << fetchVars, site, last_file, i, img_upload_error, optionVars, diffVars,
                    dumpVars, students, student_results, subjects, bucket, histVars >>

\* FirebaseDump._process_students
ProcessStudents ==
    /\ pc = "students"
    /\ LET d == update_dict(results)
       IN  students' = IF d # EmptyMap THEN Update(students, d) ELSE students
    /\ pc' = "results"
    /\ UNCHANGED << fetchVars, site, last_file, i, img_upload_error, optionVars, diffVars,
                    dumpVars, institutions, student_results, subjects, bucket,
                    histVars >>

\* FirebaseDump._process_results, generate_key drawing each key
ProcessResults ==
    /\ pc = "results"
    /\ \E keys \in [1..Len(results) -> Keys] :
          LET d == res_dict(results, self_pdf_info[1], keys)
          IN  /\ student_results' =
                    IF d # EmptyMap THEN UpdateNodes(student_results, d) ELSE student_results
              /\ synced' = IF d # EmptyMap
                           THEN synced \cup { << run, self_pdf_info[1] >> } ELSE synced
    /\ pc' = "subjects"
    /\ UNCHANGED << fetchVars, site, last_file, i, img_upload_error, optionVars, diffVars,
                    dumpVars, institutions, students, subjects, bucket, run, forced,
                    uploads, dumped, skipped, seen, prev, fetched >>

\* FirebaseDump.dump_subjects
DumpSubjects ==
    /\ pc = "subjects"
    /\ subjects' = IF subs # EmptyMap THEN Update(subjects, subs) ELSE subjects
    /\ pc' = AfterData
    /\ UNCHANGED << fetchVars, site, last_file, i, img_upload_error, optionVars, diffVars,
                    dumpVars, institutions, students, student_results, bucket,
                    histVars >>

\* FirebaseDump.dump_images; the upload of record failAt raises (0: none does)
DumpImages ==
    /\ pc = "images"
    /\ \E failAt \in 0..Len(results) :
          LET st == dump_images(results, self_pdf_info[1], failAt,
                        [bucket |-> bucket, uploads |-> uploads, err |-> img_upload_error])
          IN  /\ bucket' = st.bucket
              /\ uploads' = st.uploads
              /\ img_upload_error' = st.err
    /\ pc' = "dump_last"
    /\ UNCHANGED << fetchVars, site, last_file, i, optionVars, diffVars, dumpVars, institutions,
                    students, student_results, subjects, run, synced, forced, dumped,
                    skipped, seen, prev, fetched >>

\* a dump_last that is given the newest entry of the batch every time
DumpLast_newest ==
    /\ pc = "dump_last"
    /\ last_file' = JsonDump(pdf_infos[1])
    /\ dumped' = Append(dumped, pdf_infos[1])
    /\ i' = i + 1
    /\ pc' = NextEntry
    /\ UNCHANGED << fetchVars, site, img_upload_error, optionVars, diffVars, dumpVars,
                    storeVars, run, synced, forced, uploads, skipped, seen, prev,
                    fetched >>

\* dump_last(pdf_info), then the next entry of the for loop
DumpLast ==
    /\ pc = "dump_last"
    /\ last_file' = JsonDump(pdf_info)
    /\ dumped' = Append(dumped, pdf_info)
    /\ i' = i + 1
    /\ pc' = NextEntry
    /\ UNCHANGED << fetchVars, site, img_upload_error, optionVars, diffVars, dumpVars, storeVars,
                    run, synced, forced, uploads, skipped, seen, prev, fetched >>

\* where an exception can be raised inside the try block of main
RaisingSteps ==
    { "new_result_pdfs", "parse", "institutions", "students", "results", "subjects",
      "dump_last" }

\* except Exception as ex: logger.exception(str(ex)); the run is over.
\* An error while dump_last writes can leave the opened file empty.
UnhandledError ==
    /\ pc \in RaisingSteps
    /\ pc' = "aborted"
    /\ last_file' \in IF pc = "dump_last" THEN { last_file, EmptyText } ELSE { last_file }
    /\ UNCHANGED << fetchVars, site, i, img_upload_error, optionVars, diffVars, dumpVars,
                    storeVars, histVars >>

Next ==
    \/ ScriptStart
    \/ Publish
    \/ NewResultPdfs
    \/ DownloadFile
    \/ ParseResultPdf
    \/ ProcessInstitutions
    \/ ProcessStudents
    \/ ProcessResults
    \/ DumpSubjects
    \/ DumpImages
    \/ DumpLast
    \/ UnhandledError

Spec == Init /\ [][Next]_vars

-----------------------------------------------------------------------------
(* One run of the script, from any state earlier runs can leave behind.    *)

\* the site before and after it has published its newest result
RunSites ==
    Sites \cup { SiteOf(<< E1, E2 >>, << E3 >>, back) : back \in { NoLink, "p0" } }

SiteEntries(s) == Range(s["p0"].pdfs) \cup Range(s["p1"].pdfs)

InitRun ==
    /\ site \in RunSites
    /\ RESULT_SCRAP_DEPTH \in Depths
    /\ LAST_JSON \in LastJsonOptions
    /\ last_file \in { NoFile, EmptyText } \cup { JsonDump(e) : e \in SiteEntries(site) }
    /\ OPTION_FORCE_ALL \in BOOLEAN
    /\ OPTION_SKIP_UPLOAD_IMAGES \in BOOLEAN
    /\ OPTION_SKIP_UPLOAD_DATA \in BOOLEAN
    /\ pc = "new_result_pdfs"
    /\ run = 1
    /\ forced = OPTION_FORCE_ALL
    /\ Fresh
    /\ NoFetchCall

NextRun ==
    \/ NewResultPdfs
    \/ DownloadFile
    \/ ParseResultPdf
    \/ ProcessInstitutions
    \/ ProcessStudents
    \/ ProcessResults
    \/ DumpSubjects
    \/ DumpImages
    \/ DumpLast
    \/ UnhandledError

SpecRun == InitRun /\ [][NextRun]_vars

-----------------------------------------------------------------------------
(* new_result_pdfs alone, on every short listing and every cursor.         *)

DiffPool == { E1, E1b, E2 }

InitDiff ==
    /\ site \in { SiteOf(l, << >>, NoLink) : l \in SeqsUpTo(DiffPool, MaxLen) }
    /\ RESULT_SCRAP_DEPTH = 0
    /\ LAST_JSON = DefaultPath
    /\ last_file \in { NoFile, EmptyText, EmptyObject }
                     \cup { JsonDump(e) : e \in DiffPool \cup { E3 } }
    /\ OPTION_FORCE_ALL \in BOOLEAN
    /\ OPTION_SKIP_UPLOAD_IMAGES = FALSE
    /\ OPTION_SKIP_UPLOAD_DATA = FALSE
    /\ pc = "new_result_pdfs"
    /\ run = 1
    /\ forced = OPTION_FORCE_ALL
    /\ Fresh
    /\ NoFetchCall

SpecDiff == InitDiff /\ [][NewResultPdfs]_vars

-----------------------------------------------------------------------------
(* The dump target alone: any sequence of set_data(...).start() calls.     *)

InitSync ==
    /\ site = SiteOf(<< E2 >>, << E3 >>, NoLink)
    /\ RESULT_SCRAP_DEPTH = DefaultDepth
    /\ LAST_JSON = DefaultPath
    /\ last_file = NoFile
    /\ OPTION_FORCE_ALL = FALSE
    /\ OPTION_SKIP_UPLOAD_IMAGES \in BOOLEAN
    /\ OPTION_SKIP_UPLOAD_DATA = FALSE
    /\ pc = "set_data"
    /\ run = 0
    /\ forced = FALSE
    /\ Fresh
    /\ NoFetchCall

\* dump.set_data(pdf_info, results, subs), the call that precedes start()
SetData ==
    /\ pc \in { "set_data", "dump_last" }
    /\ run < MaxSyncs
    /\ run' = run + 1
    /\ \E d \in SyncInputs :
          /\ self_pdf_info' = Some(d.pdf_info)
          /\ results' = d.results
          /\ subs' = d.subs
    /\ seen' = seen \cup Range(results')
    /\ prev' = IF self_pdf_info = None THEN None
               ELSE Some([pdf_info |-> self_pdf_info[1], results |-> results])
    /\ pc' = AfterSetData
    /\ UNCHANGED << fetchVars, site, last_file, i, img_upload_error, optionVars, diffVars,
                    storeVars, synced, forced, uploads, dumped, skipped, fetched >>

NextSync ==
    \/ SetData
    \/ ProcessInstitutions
    \/ ProcessStudents
    \/ ProcessResults
    \/ DumpSubjects
    \/ DumpImages

SpecSync == InitSync /\ [][NextSync]_vars

-----------------------------------------------------------------------------
(* get_result_pdfs alone, on sites whose older-page links may form cycles. *)

\* two pages, each with no older-page link, a link to itself or to the other
WalkSites ==
    { [p \in { "p0", "p1" } |->
          IF p = "p0" THEN [pdfs |-> l0, next |-> n0] ELSE [pdfs |-> l1, next |-> n1]]
        : l0 \in { << E1 >>, << E1, E2 >> }, l1 \in { << >>, << E3 >> },
          n0 \in { NoLink, "p0", "p1" }, n1 \in { NoLink, "p0", "p1" } }

InitWalk ==
    /\ site \in WalkSites
    /\ RESULT_SCRAP_DEPTH \in 0..MaxDepth
    /\ LAST_JSON = DefaultPath
    /\ last_file = NoFile
    /\ OPTION_FORCE_ALL = FALSE
    /\ OPTION_SKIP_UPLOAD_IMAGES = FALSE
    /\ OPTION_SKIP_UPLOAD_DATA = FALSE
    /\ pc = "new_result_pdfs"
    /\ run = 1
    /\ forced = FALSE
    /\ Fresh
    /\ NoFetchCall

SpecWalk == InitWalk /\ [][NewResultPdfs]_vars

-----------------------------------------------------------------------------
(* load_last and the diff, on every state of the cursor, damaged ones too. *)

InitCursor ==
    /\ site \in { SiteOf(l, << >>, NoLink) : l \in SeqsUpTo({ E1, E2 }, 2) }
    /\ RESULT_SCRAP_DEPTH = 0
    /\ LAST_JSON \in { DefaultPath, JsonDump(E2), InlineBad }
    /\ last_file \in { NoFile, EmptyText, EmptyObject, Truncated, Undecodable,
                        JsonDump(E2) }
    /\ OPTION_FORCE_ALL \in BOOLEAN
    /\ OPTION_SKIP_UPLOAD_IMAGES = FALSE
    /\ OPTION_SKIP_UPLOAD_DATA = FALSE
    /\ pc = "new_result_pdfs"
    /\ run = 1
    /\ forced = OPTION_FORCE_ALL
    /\ Fresh
    /\ NoFetchCall

\* load_last raises inside new_result_pdfs; main catches the error and ends
LoadLastError ==
    /\ pc = "new_result_pdfs"
    /\ load_last_raises
    /\ pc' = "aborted"
    /\ UNCHANGED << fetchVars, site, last_file, i, img_upload_error, optionVars,
                    diffVars, dumpVars, storeVars, histVars >>

NextCursor ==
    \/ NewResultPdfs
    \/ LoadLastError

SpecCursor == InitCursor /\ [][NextCursor]_vars

-----------------------------------------------------------------------------
(* download_file alone, on every response and in every mode.               *)

InitFetch ==
    /\ site = SiteOf(<< E2 >>, << E3 >>, NoLink)
    /\ RESULT_SCRAP_DEPTH = DefaultDepth
    /\ LAST_JSON = DefaultPath
    /\ last_file = NoFile
    /\ OPTION_FORCE_ALL = FALSE
    /\ OPTION_SKIP_UPLOAD_IMAGES = FALSE
    /\ OPTION_SKIP_UPLOAD_DATA = FALSE
    /\ pc = "download_file"
    /\ run = 0
    /\ forced = FALSE
    /\ Fresh
    /\ fetch_call \in [got : BOOLEAN, resp : Responses, html_allow : BOOLEAN,
                        raise_ex : BOOLEAN]
    /\ fetch_ret = None

\* download_file(url, html_allow=..., raise_ex=...) is called and returns or raises
CallDownloadFile ==
    /\ pc = "download_file"
    /\ fetch_ret' = download_file(fetch_call.got, fetch_call.resp, fetch_call.html_allow,
                                  fetch_call.raise_ex)
    /\ pc' = "returned"
    /\ UNCHANGED << fetch_call, site, last_file, i, img_upload_error, optionVars,
                    diffVars, dumpVars, storeVars, histVars >>

SpecFetch == InitFetch /\ [][CallDownloadFile]_vars

-----------------------------------------------------------------------------
(* Properties.                                                             *)

RunOver == pc \in { "end", "aborted" }

\* index of the first entry of s equal to e
FirstIdx(s, e) == CHOOSE k \in DOMAIN s : s[k] = e /\ \A j \in 1..(k - 1) : s[j] # e

\* the entries the walk lists before (newer than) e
NewerThan(e) == { all_pdfs[k] : k \in 1..(FirstIdx(all_pdfs, e) - 1) }

\* C1: when the fetch of an entry e gives nothing during a run with force-all
\* off, the cursor file does not hold an entry newer than e when the run is over.
C1_CursorNotPastSkipped ==
    (RunOver /\ ~OPTION_FORCE_ALL /\ LAST_JSON = DefaultPath)
        => \A e \in skipped : \A n \in NewerThan(e) : last_file # JsonDump(n)

\* C2: with force-all off in every run and the cursor kept in the file, no
\* entry has its results written to the store in two different runs.
C2_NeverSyncedAgain ==
    (~forced /\ LAST_JSON = DefaultPath)
        => \A a \in synced, b \in synced : a[2] = b[2] => a[1] = b[1]

\* the cursor after the run: what dump_last wrote last, else the cursor loaded
CursorAfterRun ==
    IF dumped = << >> THEN last
    ELSE IF JsonWellFormed(last_file) THEN JsonLoads(last_file) ELSE None

\* C3: a run with force-all off whose loaded cursor is a walked entry, and in
\* which every fetch and parse succeeds, passes exactly the entries before the
\* cursor to dump_last, oldest first, and leaves the newest entry as cursor.
C3_NewerEntriesOldestFirst ==
    (pc = "end" /\ ~OPTION_FORCE_ALL /\ skipped = {} /\ last # None)
        => (last[1] \in Range(all_pdfs)
               => /\ dumped = Reversed(SubSeq(all_pdfs, 1, FirstIdx(all_pdfs, last[1]) - 1))
                  /\ CursorAfterRun = Some(all_pdfs[1]))

C3_Witness ==
    /\ pc = "end"
    /\ ~OPTION_FORCE_ALL
    /\ skipped = {}
    /\ last = Some(E3)
    /\ all_pdfs = << E1, E2, E3 >>
    /\ dumped = << E2, E1 >>
    /\ last_file = JsonDump(E1)

Diffed == pc \in { "download", "end" }

\* C4 as stated: with force-all off the diff is a prefix of the walk, and for
\* every index k with cursor = entries[k] it is entries[0:k].
C4_EveryIndex ==
    (Diffed /\ ~OPTION_FORCE_ALL)
        => /\ IsPrefix(pdf_infos, all_pdfs)
           /\ \A k \in DOMAIN all_pdfs :
                 last = Some(all_pdfs[k]) => pdf_infos = SubSeq(all_pdfs, 1, k - 1)

\* C4 amended: with force-all off the diff is a prefix of the walk, and for
\* every index k that is the first one whose entry equals the cursor it is
\* entries[0:k].
C4_FirstIndex ==
    (Diffed /\ ~OPTION_FORCE_ALL)
        => /\ IsPrefix(pdf_infos, all_pdfs)
           /\ \A k \in DOMAIN all_pdfs :
                 (last = Some(all_pdfs[k]) /\ \A j \in 1..(k - 1) : all_pdfs[j] # all_pdfs[k])
                     => pdf_infos = SubSeq(all_pdfs, 1, k - 1)

\* a partial match (E1b) before the cursor is kept, the cursor ends the diff
C4_Witness ==
    /\ Diffed
    /\ ~OPTION_FORCE_ALL
    /\ all_pdfs = << E1b, E1, E2 >>
    /\ last = Some(E1)
    /\ pdf_infos = << E1b >>

\* C5: the diff is the whole walk when force-all is set, when no cursor is
\* stored, and when the cursor equals none of the walked entries.
C5_WholeWalk ==
    Diffed =>
        ((\/ OPTION_FORCE_ALL
          \/ last_file = NoFile
          \/ last = None
          \/ \A k \in DOMAIN all_pdfs : last # Some(all_pdfs[k]))
            => pdf_infos = all_pdfs)

\* force-all with a cursor that is in the walk
C5_Witness ==
    /\ Diffed
    /\ OPTION_FORCE_ALL
    /\ last = Some(E1)
    /\ all_pdfs = << E2, E1, E1b >>
    /\ pdf_infos = all_pdfs

NoUploadAfterFailure == \A k \in 1..(Len(uploads) - 1) : uploads[k].ok

HasRecords(rs) ==
    \E k \in DOMAIN rs :
        rs[k].institution_code # NULL /\ rs[k].batch # NULL /\ rs[k].roll_num # NULL

\* every entry that reached dump_last had its results written in this run
WritesPerformed ==
    ~OPTION_SKIP_UPLOAD_DATA
        => \A e \in Range(dumped) :
              HasRecords(Payload(e.url).results) => << run, e >> \in synced

\* C6: once an upload has failed no further upload is attempted in the run
\* (not for the records left of the entry, not for a later entry), the step
\* in which it fails goes on to dump_last instead of aborting, and the store
\* writes of every entry carried through are performed all the same.
C6_UploadFailureIsSticky ==
    /\ [](NoUploadAfterFailure /\ WritesPerformed)
    /\ [][(~img_upload_error /\ img_upload_error') => pc' = "dump_last"]_vars

\* the upload of the first photo of E3 failed: the second photo of E3 and the
\* photo of E2 were not tried, the results of E2 were written
C6_Witness ==
    /\ pc = "end"
    /\ img_upload_error
    /\ uploads = << [pdf_info |-> E3, rec |-> RA, ok |-> FALSE] >>
    /\ dumped = << E3, E2 >>
    /\ << run, E2 >> \in synced

\* C7: every student record in the store has its institution code under
\* institutions.
C7_StudentHasInstitution ==
    \A p \in DOMAIN students : p[1] \in DOMAIN institutions

ValidRec(r) == r.institution_code # NULL /\ r.batch # NULL /\ r.roll_num # NULL

FieldOf(r, f) ==
    CASE f = "name" -> r.student_name
      [] f = "programme_code" -> r.programme_code
      [] f = "programme_name" -> r.programme_name
      [] OTHER -> r.batch

\* C8: no path of the store or of the bucket has a null component, each holds
\* what some record with institution code, batch and roll number gave it, and
\* a batch with such a record is carried through: its valid records are written.
C8_InvalidNeverWritten ==
    /\ \A c \in DOMAIN institutions :
          /\ c # NULL
          /\ \E r \in seen : ValidRec(r) /\ r.institution_code = c
                             /\ r.institution_name = institutions[c]
    /\ \A p \in DOMAIN students :
          /\ p[1] # NULL /\ p[2] # NULL /\ p[3] # NULL
          /\ \E r \in seen : ValidRec(r) /\ r.institution_code = p[1] /\ r.batch = p[2]
                             /\ r.roll_num = p[3] /\ FieldOf(r, p[4]) = students[p]
    /\ \A p \in DOMAIN student_results :
          /\ p[1] # NULL /\ p[2] # NULL /\ p[3] # NULL
          /\ \E r \in seen : ValidRec(r) /\ r.institution_code = p[1] /\ r.batch = p[2]
                             /\ r.roll_num = p[3]
    /\ \A b \in DOMAIN bucket :
          /\ b[2] # NULL
          /\ \E r \in seen : ValidRec(r) /\ r.roll_num = b[2] /\ r.image = bucket[b]
    /\ pc = "dump_last"
          => \A k \in DOMAIN results :
                ValidRec(results[k])
                    => << results[k].institution_code, results[k].batch,
                          results[k].roll_num, "name" >> \in DOMAIN students

\* a batch that starts with a record without institution code: the record
\* after it is written and its photo uploaded, under the same roll number
C8_Witness ==
    /\ pc = "dump_last"
    /\ results = << RD, RA >>
    /\ students[<< "101", "2019", "r1", "name" >>] = "Asha"
    /\ << "photos/students", "r1" >> \in DOMAIN bucket
    /\ bucket[<< "photos/students", "r1" >>] = "imgA"

\* the dump target was given the same records and provenance twice in a row
SameAsPrevious ==
    /\ self_pdf_info # None
    /\ prev = Some([pdf_info |-> self_pdf_info[1], results |-> results])

ResultKeys(r) ==
    { k \in Keys : << r.institution_code, r.batch, r.roll_num, "results", k >>
                       \in DOMAIN student_results }

LastOfStudent(k) ==
    \A j \in (k + 1)..Len(results) :
        ~(ValidRec(results[j])
          /\ results[j].institution_code = results[k].institution_code
          /\ results[j].batch = results[k].batch
          /\ results[j].roll_num = results[k].roll_num)

LastOfInstitution(k) ==
    \A j \in (k + 1)..Len(results) :
        ~(ValidRec(results[j]) /\ Truthy(results[j].institution_name)
          /\ results[j].institution_code = results[k].institution_code)

\* the institution and student paths of the batch hold the fields of its records
FieldsOfBatch ==
    \A k \in DOMAIN results :
        LET r == results[k]
            at == << r.institution_code, r.batch, r.roll_num >>
        IN  ValidRec(r) =>
              /\ LastOfStudent(k) =>
                    /\ students[Append(at, "name")] = r.student_name
                    /\ students[Append(at, "programme_code")] = r.programme_code
                    /\ students[Append(at, "programme_name")] = r.programme_name
                    /\ students[Append(at, "batch")] = r.batch
              /\ (Truthy(r.institution_name) /\ LastOfInstitution(k)) =>
                    institutions[r.institution_code] = r.institution_name

\* C10: _process_institutions and _process_students leave the fields of each
\* valid record at its institution and student path, and running them again
\* on the same records changes neither institutions nor students.
C10_UpsertsIdempotent ==
    /\ [](pc \in { "results", "subjects", "images", "dump_last" } => FieldsOfBatch)
    /\ [][(SameAsPrevious /\ pc = "institutions") => institutions' = institutions]_vars
    /\ [][(SameAsPrevious /\ pc = "students") => students' = students]_vars

\* the second of two syncs of the records RA, RF has upserted its students
C10_Witness ==
    /\ SameAsPrevious
    /\ pc = "results"
    /\ results = << RA, RF >>
    /\ students[<< "101", "2019", "r1", "name" >>] = "Asha F"
    /\ institutions["101"] = "Inst One (new)"

\* dump_subjects has run on the data the dump target holds
SubjectsDumped == pc \in { "images", "dump_last" } /\ ~OPTION_SKIP_UPLOAD_DATA

\* C11: after dump_subjects has run with a non-empty SubjectMap, the store
\* path subjects holds exactly that SubjectMap.
C11_SubjectsReplaced ==
    (SubjectsDumped /\ subs # EmptyMap) => subjects = subs

\* the diff was made with force-all off and a cursor equal to the newest walked entry
EmptyDiffCase ==
    /\ pc # "new_result_pdfs"
    /\ ~OPTION_FORCE_ALL
    /\ all_pdfs # << >>
    /\ last = Some(all_pdfs[1])

\* C12: when the loaded cursor equals the newest walked entry and force-all is
\* off, the diff is empty and the run ends at once: no payload is fetched, the
\* store and the bucket are not written, no upload is attempted, dump_last is
\* not called and the cursor file is left as it was.
C12_EmptyDiffDoesNothing ==
    /\ [](EmptyDiffCase =>
            /\ pc = "end"
            /\ pdf_infos = << >>
            /\ fetched = << >>
            /\ uploads = << >>
            /\ dumped = << >>
            /\ synced = {})
    /\ [][EmptyDiffCase' => (last_file' = last_file /\ storeVars' = storeVars)]_vars

\* the listing [E2, E3] with the cursor file holding E2
C12_Witness ==
    /\ EmptyDiffCase
    /\ pc = "end"
    /\ all_pdfs = << E2, E3 >>
    /\ last_file = JsonDump(E2)
    /\ fetched = << >>

\* the store holds what dump_results and dump_subjects write for the data the
\* dump target was given
EntryWritten ==
    /\ FieldsOfBatch
    /\ \A k \in DOMAIN results :
          ValidRec(results[k]) =>
              \E key \in Keys :
                  LET p == << results[k].institution_code, results[k].batch,
                              results[k].roll_num, "results", key >>
                  IN  /\ p \in DOMAIN student_results
                      /\ student_results[p].pdf_info = self_pdf_info[1]
    /\ \A s \in DOMAIN subs : s \in DOMAIN subjects /\ subjects[s] = subs[s]

\* dump_images is over for the data the dump target was given: every photo of
\* a valid record is in the bucket, or the uploads were stopped
AssetsDone ==
    \/ img_upload_error
    \/ \A k \in DOMAIN results :
          (ValidRec(results[k]) /\ Truthy(results[k].image))
              => << "photos/students", results[k].roll_num >> \in DOMAIN bucket

\* the cursor file holds the entry dump_last was called on last in this run
CursorIsLastDumped == dumped # << >> /\ last_file = JsonDump(dumped[Len(dumped)])

\* C13 as stated: in every state where the cursor file holds an entry
\* processed in this run, the results of that entry have been written.
C13_WritesAlwaysApplied ==
    CursorIsLastDumped =>
        LET e == dumped[Len(dumped)]
        IN  HasRecords(Payload(e.url).results) => << run, e >> \in synced

\* C13 amended: the cursor file is written only by dump_last(e), called after
\* start() has returned for e; at that point, unless skip-data is set, the
\* institutions, students, results and subjects of e are in the store, and
\* unless skip-images is set, the asset stage of e is over; in every state
\* where the cursor file holds an entry processed in this run and skip-data
\* is off, the results of that entry have been written.
C13_CursorAfterWrites ==
    /\ [](pc = "dump_last" =>
            /\ self_pdf_info = Some(pdf_info)
            /\ ~OPTION_SKIP_UPLOAD_DATA => EntryWritten
            /\ ~OPTION_SKIP_UPLOAD_IMAGES => AssetsDone)
    /\ []((CursorIsLastDumped /\ ~OPTION_SKIP_UPLOAD_DATA) => C13_WritesAlwaysApplied)
    /\ [][last_file' # last_file => pc = "dump_last"]_vars
    /\ [][dumped' # dumped =>
            /\ pc = "dump_last"
            /\ dumped' = Append(dumped, pdf_info)
            /\ last_file' = JsonDump(pdf_info)]_vars

\* the cursor was moved to E3 after its two records, its subject and its
\* photos were written
C13_Witness ==
    /\ CursorIsLastDumped
    /\ dumped = << E3 >>
    /\ ~OPTION_SKIP_UPLOAD_DATA
    /\ << run, E3 >> \in synced
    /\ students[<< "101", "2019", "r1", "name" >>] = "Asha"
    /\ subjects = ("S1" :> "Maths")
    /\ << "photos/students", "r2" >> \in DOMAIN bucket

\* C14: when an error has ended the run, the cursor file holds the last entry
\* for which dump_last completed in the run.
C14_CursorKeptOnError ==
    (pc = "aborted" /\ dumped # << >>) => last_file = JsonDump(dumped[Len(dumped)])

\* C15: a parser error at an entry that is not the last of the batch does not
\* end the run (the newer entries are still to be fetched): the step after
\* the parse of such an entry is never the abort of main.
C15_ParseErrorSkipsEntry ==
    [][(pc = "parse" /\ i + 1 < Len(pdf_infos)) => pc' # "aborted"]_vars

\* the response is not a payload: get raised, status not 200, empty body or HTML
NotAPayload(c) ==
    \/ ~c.got
    \/ c.resp.status_code # 200
    \/ c.resp.content = ""
    \/ c.resp.content_type = "text/html"

\* C16: with html_allow left at its default, download_file without raise_ex
\* never raises, returns None whenever the response is not a payload and the
\* body otherwise; with raise_ex the same responses raise.
C16_FetchContract ==
    (pc = "returned" /\ ~fetch_call.html_allow) =>
        /\ ~fetch_call.raise_ex => fetch_ret # Raised
        /\ (~fetch_call.raise_ex /\ NotAPayload(fetch_call)) => fetch_ret = None
        /\ (fetch_call.raise_ex /\ NotAPayload(fetch_call)) => fetch_ret = Raised
        /\ ~NotAPayload(fetch_call) => fetch_ret = Some(fetch_call.resp.content)

\* the entries of the pages of a sequence of urls, page after page
RECURSIVE EntriesOf(_, _)
EntriesOf(s, urls) ==
    IF urls = << >> THEN << >> ELSE s[Head(urls)].pdfs \o EntriesOf(s, Tail(urls))

\* C17: get_result_pdfs with depth d returns (every call is enabled and has a
\* result) after fetching at most d + 1 pages, each the older page of the one
\* before, whatever the links are; with depth 0 it fetches the given page
\* only; its result is the entries of the fetched pages in the order of the
\* fetches.
C17_WalkBounded ==
    /\ pc = "new_result_pdfs" => ENABLED NewResultPdfs
    /\ Diffed =>
          LET pages == get_calls(site, RESULTS_URL, RESULT_SCRAP_DEPTH)
          IN  /\ Len(pages) <= RESULT_SCRAP_DEPTH + 1
              /\ pages[1] = RESULTS_URL
              /\ \A k \in 2..Len(pages) : pages[k] = site[pages[k - 1]].next
              /\ RESULT_SCRAP_DEPTH = 0 => all_pdfs = site[RESULTS_URL].pdfs
              /\ all_pdfs = EntriesOf(site, pages)

\* the main page links to itself: with depth 2 it is fetched three times
C17_Witness ==
    /\ Diffed
    /\ RESULT_SCRAP_DEPTH = 2
    /\ site["p0"].next = "p0"
    /\ site["p0"].pdfs = << E1 >>
    /\ get_calls(site, RESULTS_URL, RESULT_SCRAP_DEPTH) = << "p0", "p0", "p0" >>
    /\ all_pdfs = << E1, E1, E1 >>

\* the cursor the option points to is there and is not a JSON text
CursorUnparsable ==
    IF StartsWithBrace(LAST_JSON)
    THEN ~JsonWellFormed(LAST_JSON)
    ELSE last_file # NoFile /\ ~JsonWellFormed(last_file)

\* C18: with an unparsable cursor, in the file or inline, new_result_pdfs
\* completes (load_last does not raise), no cursor is loaded and the diff is
\* the whole walk.
C18_CorruptCursorFullResync ==
    (CursorUnparsable /\ pc # "new_result_pdfs")
        => (pc # "aborted" /\ last = None /\ pdf_infos = all_pdfs)

\* C19: after dump_last(e) has completed, load_last returns e, whether the
\* last-json option is a file path or an inline literal.
C19_CursorRoundTrip ==
    (dumped # << >> /\ pc # "aborted")
        => (~load_last_raises /\ load_last = Some(dumped[Len(dumped)]))

\* the batch in the order main goes through it
Batch == Reversed(pdf_infos)

\* s is t with some of its elements left out
RECURSIVE IsSubsequence(_, _)
IsSubsequence(s, t) ==
    IF s = << >> THEN TRUE
    ELSE IF t = << >> THEN FALSE
    ELSE IF Head(s) = Head(t) THEN IsSubsequence(Tail(s), Tail(t))
    ELSE IsSubsequence(s, Tail(t))

\* C20 as stated: within a run no entry is written by dump_last twice.
C20_EachEntryOnce ==
    \A j \in DOMAIN dumped, k \in DOMAIN dumped : dumped[j] = dumped[k] => j = k

\* C20 amended: within a run the values written by dump_last are, in the order of the
\* writes, a subsequence of the part of the batch gone through so far (the
\* batch taken oldest first); every write is for the batch position the loop
\* is at and moves the loop to the next position, so that no position is
\* written twice, the loop never goes back, and nothing outside the batch is
\* written.
C20_CursorMovesForward ==
    /\ [](/\ i <= Len(pdf_infos)
          /\ Len(dumped) <= i
          /\ IsSubsequence(dumped, SubSeq(Batch, 1, i))
          /\ Range(dumped) \subseteq Range(pdf_infos))
    /\ [][i' >= i]_vars
    /\ [][dumped' # dumped =>
            /\ i < Len(pdf_infos)
            /\ dumped' = Append(dumped, Batch[i + 1])
            /\ last_file' = JsonDump(Batch[i + 1])
            /\ i' = i + 1]_vars

\* of the batch [E1, E2, E3] the fetch of E2 gave nothing: E3, then E1 were written
C20_Witness ==
    /\ pc = "end"
    /\ pdf_infos = << E1, E2, E3 >>
    /\ skipped = { E2 }
    /\ dumped = << E3, E1 >>
    /\ last_file = JsonDump(E1)

=============================================================================
